---------------------------- MODULE Spec2Model ----------------------------
(***************************************************************************)
(* A model of the array container of src/src/containers/array.c: a         *)
(* growable buffer of 16-bit values kept strictly increasing, with its     *)
(* growth policy, point mutators and set algorithms.                       *)
(*                                                                         *)
(* A container is a record [capacity, cardinality, array].  `array` is the *)
(* initialised prefix of the malloc'ed buffer: slot i of the C buffer      *)
(* (0-based) is array[i+1] when i < Len(array); the slots in               *)
(* [Len(array), capacity) have never been written since the buffer was     *)
(* allocated and hold indeterminate values.  Allocation is assumed to      *)
(* succeed.                                                                *)
(***************************************************************************)
EXTENDS Integers, Sequences, FiniteSets, TLC

VARIABLES containers, last, frame

vars == <<containers, last, frame>>

-----------------------------------------------------------------------------
(* Bounds of the model. *)

\* 16-bit values are sampled from 0..MaxVal; the code only compares them.
MaxVal == 2
\* create_given_capacity is called with sizes 0..MaxInitCap.
MaxInitCap == 2
\* copy is not called on a destination whose capacity already exceeds this.
MaxCapacity == 16
\* The skewed-intersection inputs have a small side of 0..MaxSmall elements.
MaxSmall == 1
\* number_of_runs is applied to the sets of values in 0..MaxRunVal.
MaxRunVal == 10

-----------------------------------------------------------------------------
(* Program constants. *)

DEFAULT_INIT_SIZE == 16
INT32_MAX == 2147483647
INT32_MIN == (-INT32_MAX) - 1
threshold == 64

Value == 0 .. MaxVal

-----------------------------------------------------------------------------
(* 32-bit signed arithmetic. *)

\* a + b in int32_t, wrapping modulo 2^32, for int32 a and b.
AddWrap(a, b) ==
    IF a > 0 /\ b > INT32_MAX - a THEN (a + INT32_MIN) + (b + INT32_MIN)
    ELSE IF a < 0 /\ b < INT32_MIN - a THEN (a - INT32_MIN) + (b - INT32_MIN)
    ELSE a + b

\* capacity * 5 wrapped to 32 bits.
Mul5Wrap(capacity) ==
    AddWrap(AddWrap(AddWrap(AddWrap(capacity, capacity), capacity), capacity),
            capacity)

\* C's integer division by a positive divisor: the quotient truncates to zero.
CDiv(a, b) == IF a >= 0 THEN a \div b ELSE (a + (b - 1)) \div b

\* capacity * 5 overflows int32_t.
Mul5Overflows(capacity) == capacity > INT32_MAX \div 5

Min(a, b) == IF a < b THEN a ELSE b
Max(a, b) == IF a > b THEN a ELSE b

-----------------------------------------------------------------------------
(* Sequences. *)

Range(s) == {s[i] : i \in 1 .. Len(s)}

Take(s, n) == SubSeq(s, 1, Min(n, Len(s)))
Drop(s, n) == SubSeq(s, n + 1, Len(s))

StrictlyIncreasing(s) == \A i \in 1 .. Len(s) - 1 : s[i] < s[i + 1]

\* The elements of a finite set of integers in ascending order.
RECURSIVE SortedSeq(_)
SortedSeq(S) ==
    IF S = {} THEN <<>>
    ELSE LET m == CHOOSE x \in S : \A y \in S : x <= y
         IN  <<m>> \o SortedSeq(S \ {m})

-----------------------------------------------------------------------------
(* Buffer accesses on the initialised prefix. *)

\* memcpy(dst, src, n * sizeof(uint16_t)) into a buffer of `capacity` slots:
\* slots [0, n) of dst receive the first n values of src.  Slots at or past
\* `capacity` lie outside the buffer and are not part of it.
MemCpy(dst, capacity, src, n) ==
    Take(Take(src, n) \o Drop(dst, n), Max(capacity, 0))

\* memmove(array + to, array + from, n * sizeof(uint16_t)).  A source slot at
\* or past Len(array) holds an indeterminate value (or lies past the buffer),
\* and so does the destination slot that receives it.
MemMove(array, to, from, n) ==
    LET avail == Max(0, Min(n, Len(array) - from))
        data == SubSeq(array, from + 1, from + avail)
        written == Take(array, to) \o data
    IN  IF avail = n THEN written \o Drop(array, to + n) ELSE written

\* array[at] = v.
Store(array, at, v) == Take(array, at) \o <<v>> \o Drop(array, at + 1)

-----------------------------------------------------------------------------
(* Collaborators declared in array_util.h. *)

\* Index (0-based) of ikey among the first lenarray entries, or
\* -(insertion point) - 1 when it is not there.
binarySearch(array, lenarray, ikey) ==
    IF \E i \in 1 .. lenarray : array[i] = ikey
    THEN (CHOOSE i \in 1 .. lenarray : array[i] = ikey) - 1
    ELSE -Cardinality({i \in 1 .. lenarray : array[i] < ikey}) - 1

\* Two-pointer merge of two sorted sequences without duplicates.
RECURSIVE union_merge(_, _, _, _)
union_merge(set_1, set_2, pos_1, pos_2) ==
    IF pos_1 > Len(set_1) THEN SubSeq(set_2, pos_2, Len(set_2))
    ELSE IF pos_2 > Len(set_2) THEN SubSeq(set_1, pos_1, Len(set_1))
    ELSE IF set_1[pos_1] < set_2[pos_2]
         THEN <<set_1[pos_1]>> \o union_merge(set_1, set_2, pos_1 + 1, pos_2)
    ELSE IF set_2[pos_2] < set_1[pos_1]
         THEN <<set_2[pos_2]>> \o union_merge(set_1, set_2, pos_1, pos_2 + 1)
    ELSE <<set_1[pos_1]>> \o union_merge(set_1, set_2, pos_1 + 1, pos_2 + 1)

\* The values union_uint16 writes to the output buffer (its return value is
\* their number).
union_uint16(set_1, size_1, set_2, size_2) ==
    union_merge(Take(set_1, size_1), Take(set_2, size_2), 1, 1)

\* The values intersect_uint16 writes to the output buffer: the linear merge
\* of two sorted sequences emits, in the order of A, the entries of A that B
\* holds too.
intersect_uint16(A, lenA, B, lenB) ==
    LET InB(v) == \E j \in 1 .. Min(lenB, Len(B)) : B[j] = v
    IN  SelectSeq(Take(A, lenA), InB)

\* Galloping search: the first position at or after `from` whose entry in
\* `large` is not below `key` (Len(large) + 1 when there is none), found by
\* doubling the step and then bisecting the last interval.
RECURSIVE gallop_bisect(_, _, _, _)
gallop_bisect(large, key, lo, hi) ==
    \* large[lo] < key (or lo = from - 1), and hi is past the end or >= key
    IF hi - lo <= 1 THEN hi
    ELSE LET mid == (lo + hi) \div 2
         IN  IF large[mid] < key THEN gallop_bisect(large, key, mid, hi)
             ELSE gallop_bisect(large, key, lo, mid)

RECURSIVE gallop_step(_, _, _, _)
gallop_step(large, key, from, step) ==
    LET probe == from + step
    IN  IF probe > Len(large)
        THEN gallop_bisect(large, key, from + (step \div 2), Len(large) + 1)
        ELSE IF large[probe] < key
        THEN gallop_step(large, key, from, step * 2)
        ELSE gallop_bisect(large, key, from + (step \div 2), probe)

advanceUntil(large, key, from) ==
    IF from > Len(large) THEN from
    ELSE IF large[from] >= key THEN from
    ELSE gallop_step(large, key, from, 1)

\* Each entry of the small sequence is looked up in the large one by galloping
\* from the position of the previous hit.
RECURSIVE intersect_gallop(_, _, _, _)
intersect_gallop(small, large, pos_s, pos_l) ==
    IF pos_s > Len(small) \/ pos_l > Len(large) THEN <<>>
    ELSE LET at == advanceUntil(large, small[pos_s], pos_l)
         IN  IF at > Len(large) THEN <<>>
             ELSE IF large[at] = small[pos_s]
             THEN <<small[pos_s]>> \o intersect_gallop(small, large, pos_s + 1, at + 1)
             ELSE intersect_gallop(small, large, pos_s + 1, at)

\* The values intersect_skewed_uint16 writes to the output buffer.
intersect_skewed_uint16(small, size_s, large, size_l) ==
    intersect_gallop(Take(small, size_s), Take(large, size_l), 1, 1)

-----------------------------------------------------------------------------
(* Growth policy. *)

\* The values grow_capacity can return.  capacity * 5 overflows int32_t for
\* capacity > INT32_MAX / 5, which is undefined: the result is then the
\* wrapped product divided by 4 or any other int32_t (sampled).
grow_capacity(capacity) ==
    IF capacity <= 0 THEN {DEFAULT_INIT_SIZE}
    ELSE IF capacity < 64 THEN {capacity * 2}
    ELSE IF capacity < 1024 THEN {CDiv(capacity * 3, 2)}
    ELSE IF ~Mul5Overflows(capacity) THEN {CDiv(capacity * 5, 4)}
    ELSE {CDiv(Mul5Wrap(capacity), 4), INT32_MIN, -1, 0, capacity, INT32_MAX}

\* clamp without its lower bound.
clamp_no_lower(val, min, max) == IF val > max THEN max ELSE val

clamp(val, min, max) == IF val < min THEN min ELSE IF val > max THEN max ELSE val

\* The containers array_container_grow can leave: the capacity is the clamped
\* candidate, snapped to max when within max/16 of it; the cardinality is
\* untouched; realloc keeps the old contents, malloc gives a fresh buffer.
array_container_grow(container, min, max, preserve) ==
    { LET clamped == clamp(g, min, max)
          new_capacity == IF clamped > max - CDiv(max, 16) THEN max ELSE clamped
      IN  [capacity |-> new_capacity,
           cardinality |-> container.cardinality,
           array |-> IF preserve THEN Take(container.array, Max(new_capacity, 0))
                     ELSE <<>>]
      : g \in grow_capacity(container.capacity) }

-----------------------------------------------------------------------------
(* Container lifecycle. *)

array_container_create_given_capacity(size) ==
    [capacity |-> size, cardinality |-> 0, array |-> <<>>]

array_container_create == array_container_create_given_capacity(DEFAULT_INIT_SIZE)

array_container_clone(src) ==
    [capacity |-> src.capacity,
     cardinality |-> src.cardinality,
     array |-> MemCpy(<<>>, src.capacity, src.array, src.cardinality)]

array_container_empty(array) == array.cardinality = 0
array_container_full(array) == array.cardinality = array.capacity

\* The containers copy(src, dst) can leave in dst.
array_container_copy(src, dst) ==
    LET cardinality == src.cardinality
        grown == IF cardinality < dst.capacity
                 THEN array_container_grow(dst, cardinality, INT32_MAX, FALSE)
                 ELSE {dst}
    IN  { [capacity |-> d.capacity,
           cardinality |-> cardinality,
           array |-> MemCpy(d.array, d.capacity, src.array, cardinality)]
          : d \in grown }

-----------------------------------------------------------------------------
(* Point mutators. *)

array_container_append(arr, pos) ==
    LET capacity == arr.capacity
        grown == IF array_container_full(arr)
                 THEN array_container_grow(arr, capacity + 1, INT32_MAX, TRUE)
                 ELSE {arr}
    IN  { [a EXCEPT !.array = Store(a.array, arr.cardinality, pos),
                    !.cardinality = arr.cardinality + 1]
          : a \in grown }

\* add whose insertion path grows the buffer without keeping its contents.
array_container_add_no_preserve(arr, pos) ==
    LET cardinality == arr.cardinality
    IN  IF array_container_empty(arr) \/ arr.array[cardinality] < pos
        THEN { [c |-> a, ret |-> TRUE] : a \in array_container_append(arr, pos) }
        ELSE
          LET loc == binarySearch(arr.array, cardinality, pos)
              not_found == loc < 0
              grown == IF array_container_full(arr)
                       THEN array_container_grow(arr, arr.capacity + 1,
                                                 INT32_MAX, FALSE)
                       ELSE {arr}
              insert_idx == (-loc) - 1
          IN  IF not_found
              THEN { [c |-> [a EXCEPT
                               !.array = Store(MemMove(a.array, insert_idx + 1,
                                                       insert_idx,
                                                       cardinality - insert_idx),
                                               insert_idx, pos),
                               !.cardinality = a.cardinality + 1],
                      ret |-> TRUE]
                     : a \in grown }
              ELSE { [c |-> arr, ret |-> FALSE] }

\* The outcomes of add: the container left and the value returned.
array_container_add(arr, pos) ==
    LET cardinality == arr.cardinality
    IN  IF array_container_empty(arr) \/ arr.array[cardinality] < pos
        THEN { [c |-> a, ret |-> TRUE] : a \in array_container_append(arr, pos) }
        ELSE
          LET loc == binarySearch(arr.array, cardinality, pos)
              not_found == loc < 0
              grown == IF array_container_full(arr)
                       THEN array_container_grow(arr, arr.capacity + 1,
                                                 INT32_MAX, TRUE)
                       ELSE {arr}
              insert_idx == (-loc) - 1
          IN  IF not_found
              THEN { [c |-> [a EXCEPT
                               !.array = Store(MemMove(a.array, insert_idx + 1,
                                                       insert_idx,
                                                       cardinality - insert_idx),
                                               insert_idx, pos),
                               !.cardinality = a.cardinality + 1],
                      ret |-> TRUE]
                     : a \in grown }
              ELSE { [c |-> arr, ret |-> FALSE] }

\* remove that decrements the cardinality without shifting.
array_container_remove_no_shift(arr, pos) ==
    LET idx == binarySearch(arr.array, arr.cardinality, pos)
        is_present == idx >= 0
    IN  IF is_present
        THEN [c |-> [arr EXCEPT !.cardinality = arr.cardinality - 1],
              ret |-> TRUE, src |-> {}, dst |-> {}]
        ELSE [c |-> arr, ret |-> FALSE, src |-> {}, dst |-> {}]

\* The outcome of remove: the container left, the value returned, and the
\* buffer slots (0-based) the memmove reads (src) and writes (dst).
array_container_remove(arr, pos) ==
    LET idx == binarySearch(arr.array, arr.cardinality, pos)
        is_present == idx >= 0
        n == arr.cardinality - idx
    IN  IF is_present
        THEN [c |-> [arr EXCEPT !.array = MemMove(arr.array, idx, idx + 1, n),
                                !.cardinality = arr.cardinality - 1],
              ret |-> TRUE,
              src |-> (idx + 1) .. (idx + n),
              dst |-> idx .. (idx + n - 1)]
        ELSE [c |-> arr, ret |-> FALSE, src |-> {}, dst |-> {}]

array_container_contains(arr, pos) ==
    binarySearch(arr.array, arr.cardinality, pos) >= 0

-----------------------------------------------------------------------------
(* Set algorithms. *)

\* union that sizes out for the first operand alone.
array_container_union_short(array_1, array_2, out) ==
    LET card_1 == array_1.cardinality
        card_2 == array_2.cardinality
        max_cardinality == card_1
        grown == IF out.capacity < max_cardinality
                 THEN array_container_grow(out, max_cardinality, INT32_MAX, FALSE)
                 ELSE {out}
        written == IF card_1 < card_2
                   THEN union_uint16(array_1.array, card_1, array_2.array, card_2)
                   ELSE union_uint16(array_2.array, card_2, array_1.array, card_1)
    IN  { [capacity |-> o.capacity,
           cardinality |-> Len(written),
           array |-> MemCpy(o.array, o.capacity, written, Len(written))]
          : o \in grown }

\* The containers union can leave in out.
array_container_union(array_1, array_2, out) ==
    LET card_1 == array_1.cardinality
        card_2 == array_2.cardinality
        max_cardinality == card_1 + card_2
        grown == IF out.capacity < max_cardinality
                 THEN array_container_grow(out, max_cardinality, INT32_MAX, FALSE)
                 ELSE {out}
        written == IF card_1 < card_2
                   THEN union_uint16(array_1.array, card_1, array_2.array, card_2)
                   ELSE union_uint16(array_2.array, card_2, array_1.array, card_1)
    IN  { [capacity |-> o.capacity,
           cardinality |-> Len(written),
           array |-> MemCpy(o.array, o.capacity, written, Len(written))]
          : o \in grown }

minimum(a, b) == IF a < b THEN a ELSE b

\* intersection whose second skewed call passes card_2 as both lengths.
array_container_intersection_wrong_len(array1, array2, out) ==
    LET card_1 == array1.cardinality
        card_2 == array2.cardinality
        min_card == IF card_1 < card_2 THEN card_1 ELSE card_2
        grown == IF out.capacity < min_card
                 THEN array_container_grow(out, min_card, INT32_MAX, FALSE)
                 ELSE {out}
        written ==
            IF card_1 * threshold < card_2
            THEN intersect_skewed_uint16(array1.array, card_1, array2.array, card_2)
            ELSE IF card_2 * threshold < card_1
            THEN intersect_skewed_uint16(array2.array, card_2, array1.array, card_2)
            ELSE intersect_uint16(array1.array, card_1, array2.array, card_2)
    IN  { [capacity |-> o.capacity,
           cardinality |-> Len(written),
           array |-> MemCpy(o.array, o.capacity, written, Len(written))]
          : o \in grown }

\* The containers intersection can leave in out.
array_container_intersection(array1, array2, out) ==
    LET card_1 == array1.cardinality
        card_2 == array2.cardinality
        min_card == minimum(card_1, card_2)
        grown == IF out.capacity < min_card
                 THEN array_container_grow(out, min_card, INT32_MAX, FALSE)
                 ELSE {out}
        written ==
            IF card_1 * threshold < card_2
            THEN intersect_skewed_uint16(array1.array, card_1, array2.array, card_2)
            ELSE IF card_2 * threshold < card_1
            THEN intersect_skewed_uint16(array2.array, card_2, array1.array, card_1)
            ELSE intersect_uint16(array1.array, card_1, array2.array, card_2)
    IN  { [capacity |-> o.capacity,
           cardinality |-> Len(written),
           array |-> MemCpy(o.array, o.capacity, written, Len(written))]
          : o \in grown }

-----------------------------------------------------------------------------
(* Introspection. *)

\* The loop of number_of_runs from the p-th stored value on.
RECURSIVE runs_loop(_, _, _, _)
runs_loop(a, p, prev, nr_runs) ==
    IF p > a.cardinality THEN nr_runs
    ELSE runs_loop(a, p + 1, a.array[p],
                   IF a.array[p] # prev + 1 THEN nr_runs + 1 ELSE nr_runs)

\* number_of_runs that starts with prev = -1.
array_container_number_of_runs_prev(a) == runs_loop(a, 1, -1, 0)

array_container_number_of_runs(a) == runs_loop(a, 1, -2, 0)

-----------------------------------------------------------------------------
(* The state machine.                                                      *)
(*   containers  the live containers, by identifier                        *)
(*   last        the last operation called: its name, arguments, result    *)
(*               and the containers before it                              *)
(*   frame       the locals of a running intersection_inplace              *)
(* The program is single-threaded: no operation starts while               *)
(* intersection_inplace runs.  A write past the end of a buffer corrupts   *)
(* the heap; nothing is modelled after it.                                 *)

Ids == DOMAIN containers

NoFrame == [active |-> FALSE]

\* No container's cardinality exceeds its buffer: no write went past a buffer.
NoOverrun == \A k \in Ids : containers[k].cardinality <= containers[k].capacity

Idle == ~frame.active /\ NoOverrun

\* The container that holds set S in a buffer of `capacity` slots, with the
\* values of `stale` left behind in the slots after the cardinality.
Holding(S, capacity, stale) ==
    [capacity |-> capacity,
     cardinality |-> Cardinality(S),
     array |-> Take(SortedSeq(S) \o stale, capacity)]

Create(k, size) ==
    /\ Idle
    /\ containers' = [containers EXCEPT ![k] =
                          array_container_create_given_capacity(size)]
    /\ last' = [op |-> "create", a |-> k]
    /\ UNCHANGED frame

CreateDefault(k) ==
    /\ Idle
    /\ containers' = [containers EXCEPT ![k] = array_container_create]
    /\ last' = [op |-> "create", a |-> k]
    /\ UNCHANGED frame

Clone(src, k) ==
    /\ Idle
    /\ containers' = [containers EXCEPT ![k] = array_container_clone(containers[src])]
    /\ last' = [op |-> "clone", a |-> src, b |-> k]
    /\ UNCHANGED frame

Copy(src, dst) ==
    /\ Idle
    /\ src # dst
    /\ containers[dst].capacity <= MaxCapacity
    /\ \E d \in array_container_copy(containers[src], containers[dst]) :
           containers' = [containers EXCEPT ![dst] = d]
    /\ last' = [op |-> "copy", a |-> src, b |-> dst, pre |-> containers[dst]]
    /\ UNCHANGED frame

Add(k, x) ==
    /\ Idle
    /\ \E o \in array_container_add(containers[k], x) :
           /\ containers' = [containers EXCEPT ![k] = o.c]
           /\ last' = [op |-> "add", a |-> k, x |-> x, ret |-> o.ret,
                       pre |-> containers[k]]
    /\ UNCHANGED frame

Remove(k, x) ==
    /\ Idle
    /\ LET o == array_container_remove(containers[k], x)
       IN  /\ containers' = [containers EXCEPT ![k] = o.c]
           /\ last' = [op |-> "remove", a |-> k, x |-> x, ret |-> o.ret,
                       pre |-> containers[k], src |-> o.src, dst |-> o.dst]
    /\ UNCHANGED frame

Union(a, b, out) ==
    /\ Idle
    /\ out # a /\ out # b
    /\ \E o \in array_container_union(containers[a], containers[b],
                                      containers[out]) :
           containers' = [containers EXCEPT ![out] = o]
    /\ last' = [op |-> "union", a |-> a, b |-> b, out |-> out,
                pre |-> containers]
    /\ UNCHANGED frame

Intersection(a, b, out) ==
    /\ Idle
    /\ out # a /\ out # b
    /\ \E o \in array_container_intersection(containers[a], containers[b],
                                             containers[out]) :
           containers' = [containers EXCEPT ![out] = o]
    /\ last' = [op |-> "intersection", a |-> a, b |-> b, out |-> out,
                pre |-> containers]
    /\ UNCHANGED frame

\* intersection_inplace, one loop iteration per step.  The one-time warning
\* it prints to stderr changes nothing of the containers and is left out.
InplaceStart(a, b) ==
    /\ Idle
    /\ a # b
    /\ frame' = [active |-> TRUE, src_1 |-> a, src_2 |-> b,
                 card |-> 0, read1_pos |-> 0, read2_pos |-> 0]
    /\ last' = [op |-> "intersection_inplace", a |-> a, b |-> b,
                pre |-> containers, done |-> FALSE]
    /\ UNCHANGED containers

InplaceLoopCond ==
    /\ frame.read1_pos < containers[frame.src_1].cardinality
    /\ frame.read2_pos < containers[frame.src_2].cardinality

\* The merge loop writing a match where it was read instead of at the write
\* cursor.
inplace_iteration_no_compact(f, src_1, src_2) ==
    LET v1 == src_1.array[f.read1_pos + 1]
        v2 == src_2.array[f.read2_pos + 1]
    IN  IF v1 < v2
        THEN [frame |-> [f EXCEPT !.read1_pos = @ + 1], array |-> src_1.array]
        ELSE IF v1 > v2
        THEN [frame |-> [f EXCEPT !.read2_pos = @ + 1], array |-> src_1.array]
        ELSE [frame |-> [f EXCEPT !.card = @ + 1, !.read1_pos = @ + 1,
                                  !.read2_pos = @ + 1],
              array |-> Store(src_1.array, f.read1_pos, v1)]

\* The frame and src_1's buffer after one iteration of the merge loop.
inplace_iteration(f, src_1, src_2) ==
    LET v1 == src_1.array[f.read1_pos + 1]
        v2 == src_2.array[f.read2_pos + 1]
    IN  IF v1 < v2
        THEN [frame |-> [f EXCEPT !.read1_pos = @ + 1], array |-> src_1.array]
        ELSE IF v1 > v2
        THEN [frame |-> [f EXCEPT !.read2_pos = @ + 1], array |-> src_1.array]
        ELSE [frame |-> [f EXCEPT !.card = @ + 1, !.read1_pos = @ + 1,
                                  !.read2_pos = @ + 1],
              array |-> Store(src_1.array, f.card, v1)]

InplaceStep ==
    /\ frame.active
    /\ InplaceLoopCond
    /\ LET it == inplace_iteration(frame, containers[frame.src_1],
                                   containers[frame.src_2])
       IN  /\ frame' = it.frame
           /\ containers' = [containers EXCEPT ![frame.src_1].array = it.array]
    /\ UNCHANGED last

InplaceDone ==
    /\ frame.active
    /\ ~InplaceLoopCond
    /\ containers' = [containers EXCEPT ![frame.src_1].cardinality = frame.card]
    /\ frame' = NoFrame
    /\ last' = [last EXCEPT !.done = TRUE]

\* array_container_grow called directly.
Grow(k, min, max, preserve) ==
    /\ ~frame.active
    /\ min <= max
    /\ \E g \in array_container_grow(containers[k], min, max, preserve) :
           containers' = [containers EXCEPT ![k] = g]
    /\ last' = [op |-> "grow", a |-> k, min |-> min, max |-> max,
                preserve |-> preserve, pre |-> containers[k]]
    /\ UNCHANGED frame

NumberOfRuns(k) ==
    /\ Idle
    /\ last' = [op |-> "number_of_runs", a |-> k,
                ret |-> array_container_number_of_runs(containers[k])]
    /\ UNCHANGED <<containers, frame>>

-----------------------------------------------------------------------------
(* Lifecycle and point mutators on two containers. *)

Capacities == (0 .. MaxInitCap) \cup {DEFAULT_INIT_SIZE}

Init ==
    /\ containers \in [1 .. 2 -> {array_container_create_given_capacity(n) :
                                     n \in Capacities}]
    /\ last = [op |-> "init"]
    /\ frame = NoFrame

Next ==
    \/ \E k \in Ids, n \in 0 .. MaxInitCap : Create(k, n)
    \/ \E k \in Ids : CreateDefault(k)
    \/ \E src \in Ids, k \in Ids : Clone(src, k)
    \/ \E src \in Ids, dst \in Ids : Copy(src, dst)
    \/ \E k \in Ids, x \in Value : Add(k, x)
    \/ \E k \in Ids, x \in Value : Remove(k, x)

Spec == Init /\ [][Next]_vars

-----------------------------------------------------------------------------
(* The set algorithms, on containers the operations above can build: a     *)
(* container holding S in a buffer of exactly |S| slots or in a default    *)
(* buffer, and an emptied container with stale values left behind.         *)

Inputs ==
    UNION { { Holding(S, Cardinality(S), <<>>),
              Holding(S, DEFAULT_INIT_SIZE, <<>>) } : S \in SUBSET Value }

Emptied ==
    { Holding({}, cap, stale) :
        cap \in Capacities, stale \in {<<>>, SortedSeq(Value)} }

\* Long containers for the skewed intersection: with a small side of s
\* elements the skewed path is taken from threshold * s + 1 elements on.
LargeLens == { threshold * s + d : s \in 1 .. MaxSmall, d \in {0, 1} }

Filled(n, array) == [capacity |-> n, cardinality |-> n, array |-> array]

Large ==
    UNION { { Filled(n, [i \in 1 .. n |-> i - 1]),
              Filled(n, [i \in 1 .. n |-> i]),
              Filled(n, [i \in 1 .. n |-> 2 * (i - 1)]) } : n \in LargeLens }

\* The short operands of the intersection hold values at the start, in the
\* middle and past the end of the long ones.
ProbeValues == {0, 1, threshold - 1, threshold, 2 * threshold}

Small ==
    { Holding(S, Cardinality(S), <<>>) :
        S \in {T \in SUBSET ProbeValues : Cardinality(T) <= MaxSmall + 1} }

InitUnion ==
    /\ containers \in [1 .. 3 -> Inputs \cup Emptied]
    /\ containers[1] \in Inputs
    /\ containers[2] \in Inputs
    /\ containers[3] \in Emptied
    /\ last = [op |-> "init"]
    /\ frame = NoFrame

\* Containers 1 and 2 are the operands, in either order; container 3 is the
\* output, and keeps what the previous call left in it.
NextUnion == \E a \in {1, 2}, b \in {1, 2} : Union(a, b, 3)

SpecUnion == InitUnion /\ [][NextUnion]_vars

InitIsect ==
    /\ containers \in [1 .. 3 -> Small \cup Large \cup Emptied]
    /\ containers[1] \in Small
    /\ containers[2] \in Small \cup Large
    /\ containers[3] \in Emptied
    /\ last = [op |-> "init"]
    /\ frame = NoFrame

NextIsect ==
    \E a \in {1, 2}, b \in {1, 2} : a # b /\ Intersection(a, b, 3)

SpecIsect == InitIsect /\ [][NextIsect]_vars

InitInplace ==
    /\ containers \in [1 .. 2 -> Inputs]
    /\ last = [op |-> "init"]
    /\ frame = NoFrame

NextInplace ==
    \/ \E a \in Ids, b \in Ids : InplaceStart(a, b)
    \/ InplaceStep
    \/ InplaceDone

SpecInplace == InitInplace /\ [][NextInplace]_vars

-----------------------------------------------------------------------------
(* The growth policy on its own: capacities around every branch of         *)
(* grow_capacity and around the overflow of capacity * 5.                  *)

GrowCapacities ==
    {0, 1, 16, 63, 64, 1023, 1024, INT32_MAX \div 5, (INT32_MAX \div 5) + 1,
     858993459, 858993460, INT32_MAX - 1, INT32_MAX}

GrowMins == {0, 1, 17, 4096, INT32_MAX}
GrowMaxes == {0, 16, 17, 65536, INT32_MAX}

InitGrow ==
    /\ \E cap \in GrowCapacities, S \in {{}, {0}} :
           /\ Cardinality(S) <= cap
           /\ containers = [k \in {1} |-> Holding(S, cap, <<>>)]
    /\ last = [op |-> "init"]
    /\ frame = NoFrame

NextGrow ==
    \E k \in Ids, min \in GrowMins, max \in GrowMaxes, preserve \in BOOLEAN :
        Grow(k, min, max, preserve)

SpecGrow == InitGrow /\ [][NextGrow]_vars

-----------------------------------------------------------------------------
(* number_of_runs on every set of values in 0 .. MaxRunVal. *)

InitRuns ==
    /\ \E S \in SUBSET (0 .. MaxRunVal) :
           containers = [k \in {1} |-> Holding(S, Max(Cardinality(S),
                                                     DEFAULT_INIT_SIZE), <<>>)]
    /\ last = [op |-> "init"]
    /\ frame = NoFrame

NextRuns == \E k \in Ids : NumberOfRuns(k)

SpecRuns == InitRuns /\ [][NextRuns]_vars

-----------------------------------------------------------------------------
(* What a container holds. *)

\* The stored values at indices [0, cardinality) that lie in the buffer.
Contents(c) == Take(c.array, c.cardinality)

SetOf(c) == Range(Contents(c))

\* The logical contents are initialised slots of the buffer.
Stored(c) == c.cardinality <= Len(c.array) /\ Len(c.array) <= c.capacity

\* Every container the lifecycle and point mutators leave has its logical
\* contents in initialised slots of its buffer, unless a copy overran it.
StoredUnlessOverrun == NoOverrun => \A k \in Ids : Stored(containers[k])

\* Between operations, and unless a copy overran a buffer, every container's
\* logical contents are stored and strictly increasing.
SortedUnlessOverrun ==
    (~frame.active /\ NoOverrun) =>
        \A k \in Ids : /\ Stored(containers[k])
                       /\ StrictlyIncreasing(Contents(containers[k]))

-----------------------------------------------------------------------------
(* C1: after any public operation, every container's stored values at      *)
(* indices [0, cardinality) are strictly increasing.                       *)
C1_SortedAfterEveryOperation ==
    ~frame.active =>
        \A k \in Ids :
            /\ containers[k].cardinality <= Len(containers[k].array)
            /\ StrictlyIncreasing(Contents(containers[k]))

(* C2: every container satisfies 0 <= cardinality <= capacity, and after   *)
(* copy(src, dst) dst.cardinality = src.cardinality <= dst.capacity.       *)
C2_CardinalityWithinCapacity ==
    /\ \A k \in Ids : /\ 0 <= containers[k].cardinality
                      /\ containers[k].cardinality <= containers[k].capacity
    /\ last.op = "copy" =>
           /\ containers[last.b].cardinality = containers[last.a].cardinality
           /\ containers[last.b].cardinality <= containers[last.b].capacity

(* C3: add(c, x) on a container holding S returns true iff x is not in S   *)
(* and leaves the container holding exactly S \cup {x}, sorted, with x     *)
(* found by contains; when x was present nothing changes, and a second     *)
(* add(c, x) returns false and changes nothing.                            *)
C3_AddInsertsOnce ==
    last.op = "add" =>
        LET pre == last.pre
            post == containers[last.a]
            S == SetOf(pre)
            x == last.x
        IN  /\ last.ret = (x \notin S)
            /\ Stored(post)
            /\ StrictlyIncreasing(Contents(post))
            /\ SetOf(post) = S \cup {x}
            /\ post.cardinality = Cardinality(S \cup {x})
            /\ array_container_contains(post, x)
            /\ ~last.ret => post = pre
            /\ \A again \in array_container_add(post, x) :
                   ~again.ret /\ again.c = post

\* An add through the insertion path on a full container: the buffer grows
\* and the earlier elements are kept.
C3_Witness ==
    /\ last.op = "add"
    /\ last.ret
    /\ last.pre.cardinality >= 2
    /\ last.pre.cardinality = last.pre.capacity
    /\ last.x < last.pre.array[last.pre.cardinality]
    /\ containers[last.a].capacity > last.pre.capacity

(* C4: remove(c, x) with x present returns true, decrements cardinality by *)
(* exactly 1, keeps every other element and makes contains(c, x) false;    *)
(* with x absent it returns false and changes neither cardinality,         *)
(* capacity nor the stored values.                                         *)
C4_RemoveDeletesOne ==
    last.op = "remove" =>
        LET pre == last.pre
            post == containers[last.a]
            S == SetOf(pre)
            x == last.x
        IN  /\ last.ret = (x \in S)
            /\ last.ret =>
                   /\ post.cardinality = pre.cardinality - 1
                   /\ post.cardinality <= Len(post.array)
                   /\ StrictlyIncreasing(Contents(post))
                   /\ SetOf(post) = S \ {x}
                   /\ ~array_container_contains(post, x)
                   /\ post.capacity = pre.capacity
            /\ ~last.ret =>
                   /\ post.cardinality = pre.cardinality
                   /\ post.capacity = pre.capacity
                   /\ post.array = pre.array

\* A removal that shifts elements left: x is present and is not the last.
C4_Witness ==
    /\ last.op = "remove"
    /\ last.ret
    /\ last.pre.cardinality >= 3
    /\ last.x = last.pre.array[2]

(* C10: remove(c, x) reads and writes no buffer slot outside               *)
(* [0, capacity): with x found at idx, the shift reads only slots in       *)
(* [idx+1, cardinality) and writes only slots in [idx, cardinality-1).     *)
C10_RemoveStaysInBuffer ==
    last.op = "remove" =>
        LET pre == last.pre
            idx == binarySearch(pre.array, pre.cardinality, last.x)
        IN  /\ last.src \subseteq 0 .. (pre.capacity - 1)
            /\ last.dst \subseteq 0 .. (pre.capacity - 1)
            /\ last.ret =>
                   /\ last.src \subseteq (idx + 1) .. (pre.cardinality - 1)
                   /\ last.dst \subseteq idx .. (pre.cardinality - 2)

(* C5: union(A, B, out) with out distinct from A and B leaves out holding  *)
(* exactly A \cup B in ascending order, out.cardinality the number of      *)
(* distinct elements and within out.capacity, whatever out's capacity was  *)
(* and whichever operand is smaller; A and B are unchanged; with A empty   *)
(* the result is B's contents.                                             *)
C5_UnionIsSetUnion ==
    last.op = "union" =>
        LET A == last.pre[last.a]
            B == last.pre[last.b]
            out == containers[last.out]
        IN  /\ Stored(out)
            /\ StrictlyIncreasing(Contents(out))
            /\ SetOf(out) = SetOf(A) \cup SetOf(B)
            /\ out.cardinality = Cardinality(SetOf(A) \cup SetOf(B))
            /\ out.cardinality <= out.capacity
            /\ containers[last.a] = A
            /\ containers[last.b] = B
            /\ A.cardinality = 0 => Contents(out) = Contents(B)

\* A union that has to grow out, with the first operand the smaller one and
\* an element in both operands.
C5_Witness ==
    /\ last.op = "union"
    /\ last.pre[last.out].capacity
           < last.pre[last.a].cardinality + last.pre[last.b].cardinality
    /\ 0 < last.pre[last.a].cardinality
    /\ last.pre[last.a].cardinality < last.pre[last.b].cardinality
    /\ SetOf(last.pre[last.a]) \cap SetOf(last.pre[last.b]) # {}
    /\ containers[last.out].capacity > last.pre[last.out].capacity

\* Which path intersection takes for two cardinalities.
intersection_path(card_1, card_2) ==
    IF card_1 * threshold < card_2 THEN "skewed_1"
    ELSE IF card_2 * threshold < card_1 THEN "skewed_2"
    ELSE "balanced"

(* C6: intersection(A, B, out) with out distinct from A and B leaves out   *)
(* holding exactly A \cap B in ascending order; the output is the one the  *)
(* balanced merge gives and the one the skewed search gives with the       *)
(* shorter operand as the probe side, whichever path the 64x test selects; *)
(* out.cardinality <= min(|A|, |B|) <= out.capacity.                       *)
C6_IntersectionPathIndependent ==
    last.op = "intersection" =>
        LET A == last.pre[last.a]
            B == last.pre[last.b]
            out == containers[last.out]
            short == IF A.cardinality <= B.cardinality THEN A ELSE B
            long == IF A.cardinality <= B.cardinality THEN B ELSE A
        IN  /\ Stored(out)
            /\ StrictlyIncreasing(Contents(out))
            /\ SetOf(out) = SetOf(A) \cap SetOf(B)
            /\ Contents(out) = intersect_uint16(A.array, A.cardinality,
                                                B.array, B.cardinality)
            /\ Contents(out) = intersect_skewed_uint16(short.array, short.cardinality,
                                                       long.array, long.cardinality)
            /\ out.cardinality <= minimum(A.cardinality, B.cardinality)
            /\ minimum(A.cardinality, B.cardinality) <= out.capacity

\* The skewed path with the second operand as the short, non-empty probe
\* side, a hit far into the long operand, and an output that had to grow.
C6_Witness ==
    /\ last.op = "intersection"
    /\ intersection_path(last.pre[last.a].cardinality,
                         last.pre[last.b].cardinality) = "skewed_2"
    /\ last.pre[last.b].cardinality > 0
    /\ containers[last.out].cardinality > 0
    /\ containers[last.out].array[1] >= threshold - 1
    /\ last.pre[last.out].capacity < last.pre[last.b].cardinality

(* C7: intersection_inplace(A, B) on distinct containers leaves A holding  *)
(* exactly A \cap B in ascending order with A.cardinality the size of the  *)
(* intersection and leaves B unchanged; at every step of the merge the     *)
(* write cursor is no greater than A's read cursor, and the entries of A   *)
(* not yet read are the original ones.                                     *)
C7_InplaceIntersection ==
    /\ frame.active =>
           /\ frame.card <= frame.read1_pos
           /\ \A i \in (frame.read1_pos + 1) .. last.pre[last.a].cardinality :
                  containers[last.a].array[i] = last.pre[last.a].array[i]
           /\ containers[last.b] = last.pre[last.b]
    /\ (last.op = "intersection_inplace" /\ last.done) =>
           LET A == last.pre[last.a]
               B == last.pre[last.b]
               post == containers[last.a]
           IN  /\ Stored(post)
               /\ StrictlyIncreasing(Contents(post))
               /\ SetOf(post) = SetOf(A) \cap SetOf(B)
               /\ post.cardinality = Cardinality(SetOf(A) \cap SetOf(B))
               /\ containers[last.b] = B

\* A finished in-place intersection that moved a later element of A to the
\* front and dropped another.
C7_Witness ==
    /\ last.op = "intersection_inplace"
    /\ last.done
    /\ containers[last.a].cardinality >= 1
    /\ containers[last.a].cardinality < last.pre[last.a].cardinality
    /\ containers[last.a].array[1] # last.pre[last.a].array[1]

(* C8: after grow(c, min, max, preserve) with min <= max,                  *)
(* min <= c.capacity <= max, for every prior capacity (0, and capacities   *)
(* whose growth multiplication overflows 32 bits, included), the snap to   *)
(* max included.                                                           *)
C8_GrowWithinBounds ==
    last.op = "grow" =>
        /\ last.min <= containers[last.a].capacity
        /\ containers[last.a].capacity <= last.max

\* A growth from a capacity whose multiplication overflows, where the
\* clamped candidate was below max and the snap raised it to max.
C8_Witness ==
    /\ last.op = "grow"
    /\ Mul5Overflows(last.pre.capacity)
    /\ containers[last.a].capacity = last.max
    /\ \E g \in grow_capacity(last.pre.capacity) :
           /\ clamp(g, last.min, last.max) < last.max
           /\ clamp(g, last.min, last.max) > last.max - CDiv(last.max, 16)

(* C9: number_of_runs of a sorted container is 0 when it is empty and      *)
(* otherwise 1 plus the number of indices i in [1, cardinality) with       *)
(* array[i] # array[i-1] + 1, which is the number of maximal spans of      *)
(* consecutive integers; [1,2,3,7,8,10] has 3.                             *)
C9_NumberOfRuns ==
    last.op = "number_of_runs" =>
        LET c == containers[last.a]
            seq == Contents(c)
        IN  /\ last.ret = IF c.cardinality = 0 THEN 0
                          ELSE 1 + Cardinality({i \in 2 .. c.cardinality :
                                                   seq[i] # seq[i - 1] + 1})
            /\ last.ret = Cardinality({v \in SetOf(c) : (v - 1) \notin SetOf(c)})
            /\ seq = <<1, 2, 3, 7, 8, 10>> => last.ret = 3

\* The run count of a container that starts with 0 and has several runs.
C9_Witness ==
    /\ last.op = "number_of_runs"
    /\ Contents(containers[last.a]) = <<0, 1, 2, 3, 7, 8, 10>>
    /\ last.ret = 3

=============================================================================
